---- MODULE Spec2Model ----
(***************************************************************************)
(* Model of porkbun-dns-migrator: the import tool (dns_import.py), which   *)
(* reconciles a JSON document of DNS records against the provider, and the *)
(* export tool (dns_export.py), which turns resolver answers into that     *)
(* document.                                                               *)
(*                                                                         *)
(* Python values are modelled by what the code does with them:             *)
(*  - a str is a sequence of tokens; the token "." is the dot, the token   *)
(*    "\"" the quote character, every other token a run of other           *)
(*    characters (so split('.'), endswith('.') and strip('"') are          *)
(*    computed, not assumed);                                              *)
(*  - a JSON scalar (ttl, prio) is [t, s]: t its Python type, s its str(); *)
(*  - a JSON object is a TLA+ record whose DOMAIN is its key set.          *)
(***************************************************************************)
EXTENDS Integers, Sequences, FiniteSets, TLC

VARIABLES
    pc,        \* import tool: "idle" | "main" | "import" | "exited"
    doc,       \* the import document, as the (domain, type, record) items
               \* the four nested loops of import_dns_records visit, in order
    force,     \* args.force
    pos,       \* index of the next item import_dns_records visits
    store,     \* the provider's records, in the order it returns them
    store0,    \* the provider's records when the current run began
    nextId,    \* the id the provider gives the next record it creates
    calls,     \* provider calls issued by the current run, in order
    outcomes,  \* terminal state of each record handed to process_record
    exitCode,  \* status of sys.exit, -1 while running
    run,       \* number of this invocation of the tool
    firstRun,  \* exit status of the first invocation, -1 until it ends
    readEnv,   \* what read_input met: the input and the schema file
    faults,    \* provider calls that failed in the current run
    xpc,       \* export tool: "idle" | "query" | "format" | "done"
    xin,       \* export input: domain, record_types, raw_output, keep_a_aaaa
    xidx,      \* index of the next record type get_records queries
    xanswers,  \* what the resolver returned for each queried type (history)
    records,   \* get_records: the records dict
    formatted  \* main: formatted_records[domain]

vars == <<pc, doc, force, pos, store, store0, nextId, calls, outcomes,
          exitCode, run, firstRun, readEnv, faults, xpc, xin, xidx, xanswers,
          records, formatted>>

importVars == <<pc, doc, force, pos, store, store0, nextId, calls, outcomes,
                exitCode, run, firstRun, readEnv, faults>>

exportVars == <<xpc, xin, xidx, xanswers, records, formatted>>

----------------------------------------------------------------------------
(* Bounds of the model.                                                    *)

MaxRecs == 2    \* records in an import document
MaxStore == 1   \* records the provider holds before the first run
MaxRuns == 2    \* invocations of the import tool on the same document
MaxTypes == 3   \* record types left after --exclude
MaxFaults == 1  \* provider calls that fail in one run

----------------------------------------------------------------------------
(* Python strings and scalars.                                             *)

Dot == "."
Quote == "\""

PyNone == [t |-> "none", s |-> ""]
PyStr(x) == [t |-> "str", s |-> x]
PyInt(n) == [t |-> "int", s |-> ToString(n)]

\* str(v)
Str(v) == IF v.t = "none" THEN "None" ELSE v.s

\* bool(v), as used by `and prio`
Truthy(v) ==
    CASE v.t = "none" -> FALSE
      [] v.t = "int" -> v.s # "0"
      [] OTHER -> v.s # ""

\* record.get(key, default)
Get(record, key, default) ==
    IF key \in DOMAIN record THEN record[key] ELSE default

RECURSIVE SplitDot(_)
\* s.split('.')
SplitDot(s) ==
    IF \A i \in 1..Len(s) : s[i] # Dot
    THEN <<s>>
    ELSE LET i == CHOOSE k \in 1..Len(s) :
                      s[k] = Dot /\ \A j \in 1..(k - 1) : s[j] # Dot
         IN  <<SubSeq(s, 1, i - 1)>> \o SplitDot(SubSeq(s, i + 1, Len(s)))

RECURSIVE JoinDot(_)
\* '.'.join(parts)
JoinDot(parts) ==
    IF Len(parts) = 0 THEN <<>>
    ELSE IF Len(parts) = 1 THEN parts[1]
    ELSE parts[1] \o <<Dot>> \o JoinDot(Tail(parts))

\* parts[-2:]
LastTwo(parts) ==
    IF Len(parts) <= 2 THEN parts ELSE SubSeq(parts, Len(parts) - 1, Len(parts))

\* root_domain = '.'.join(domain.split('.')[-2:])
RootDomain(domain) == JoinDot(LastTwo(SplitDot(domain)))

\* name.endswith('.')
EndsWithDot(name) == Len(name) > 0 /\ name[Len(name)] = Dot

\* the record types that carry a priority
PrioTypes == {"MX", "SRV", "NAPTR"}

----------------------------------------------------------------------------
(* The provider (vendor API), seen through the calls dns_import.py makes.  *)
(* A provider record is [id, zone, name, type, content, ttl, prio]; the    *)
(* apex is stored under the name "@" and asked for with the empty          *)
(* subdomain, every other record under the name sent when it was created.  *)

Responses == {"SUCCESS", "ERROR", "EXC"}   \* status SUCCESS, status ERROR,
                                           \* requests.post / .json() raises

At == <<"@">>

\* the subdomain under which the provider files a stored name
ProviderKey(name) == IF name = At THEN <<>> ELSE name

\* retrieveByNameType/{root_domain}/{record_type}/{subdomain}
ProviderRetrieve(st, root, record_type, subdomain) ==
    SelectSeq(st, LAMBDA r : /\ r.zone = root
                             /\ r.type = record_type
                             /\ ProviderKey(r.name) = subdomain)

\* create/{root_domain} answered SUCCESS
ProviderCreate(st, nid, root, payload) ==
    Append(st, [id |-> nid, zone |-> root, name |-> payload.name,
                type |-> payload.type, content |-> payload.content,
                ttl |-> payload.ttl, prio |-> Get(payload, "prio", PyNone)])

\* edit/{root_domain}/{record_id} answered SUCCESS
ProviderEdit(st, root, record_id, payload) ==
    [i \in 1..Len(st) |->
        IF st[i].zone = root /\ st[i].id = record_id
        THEN [id |-> st[i].id, zone |-> root, name |-> payload.name,
              type |-> payload.type, content |-> payload.content,
              ttl |-> payload.ttl, prio |-> Get(payload, "prio", st[i].prio)]
        ELSE st[i]]

----------------------------------------------------------------------------
(* dns_import.py                                                           *)

\* payload['name']: the subdomain, or @ for the root
PayloadName(domain) ==
    IF domain # RootDomain(domain) THEN SplitDot(domain)[1] ELSE At

\* create_record sending a default ttl instead of the record's
CreatePayloadDefaultTtl(domain, record) ==
    LET base == [type |-> record.type, content |-> record.content,
                 ttl |-> PyStr("600"), name |-> PayloadName(domain)]
    IN  IF record.type \in PrioTypes
        THEN base @@ [prio |-> record.prio]
        ELSE base

\* create_record: the payload sent to create/{root_domain}
CreatePayload(domain, record) ==
    LET base == [type |-> record.type, content |-> record.content,
                 ttl |-> record.ttl, name |-> PayloadName(domain)]
    IN  IF record.type \in PrioTypes
        THEN base @@ [prio |-> record.prio]
        ELSE base

\* update_record sending a default ttl instead of the record's
UpdatePayloadDefaultTtl(domain, record) ==
    LET base == [type |-> record.type, content |-> record.content,
                 ttl |-> PyStr("600"), name |-> PayloadName(domain)]
    IN  IF "prio" \in DOMAIN record
        THEN base @@ [prio |-> record.prio]
        ELSE base

\* update_record: the payload sent to edit/{root_domain}/{record_id}
UpdatePayload(domain, record) ==
    LET base == [type |-> record.type, content |-> record.content,
                 ttl |-> record.ttl, name |-> PayloadName(domain)]
    IN  IF "prio" \in DOMAIN record
        THEN base @@ [prio |-> record.prio]
        ELSE base

\* get_existing_record: subdomain = name if name != '@' else ''
LookupSubdomain(name) == IF name # At THEN name ELSE <<>>

\* get_existing_record: the test one candidate of result['records'] passes
Matches(record, record_type, content, prio) ==
    /\ content # <<>>
    /\ record.content = content
    /\ (record_type \in PrioTypes /\ Truthy(prio))
           => Str(record.prio) = Str(prio)

RECURSIVE FirstMatch(_, _, _, _)
\* get_existing_record: the loop over result['records']; <<>> is None,
\* <<r>> the record returned
FirstMatch(recs, record_type, content, prio) ==
    IF Len(recs) = 0 THEN <<>>
    ELSE IF Matches(Head(recs), record_type, content, prio) THEN <<Head(recs)>>
    ELSE FirstMatch(Tail(recs), record_type, content, prio)

\* get_existing_record: None on a status other than SUCCESS or an empty list
GetExistingRecord(st, domain, record_type, name, content, prio, lres) ==
    IF lres = "SUCCESS"
    THEN FirstMatch(ProviderRetrieve(st, RootDomain(domain), record_type,
                                     LookupSubdomain(name)),
                    record_type, content, prio)
    ELSE <<>>

\* process_record without its required-field check
PrioMissingNever(record_type, prio) == FALSE

\* process_record: the required-field check on prio
PrioMissing(record_type, prio) == record_type \in PrioTypes /\ prio = PyNone

\* process_record: record_data
RecordData(name, record_type, content, ttl, prio) ==
    LET base == [name |-> name, type |-> record_type, content |-> content,
                 ttl |-> ttl]
    IN  IF prio # PyNone THEN base @@ [prio |-> prio] ELSE base

\* import_dns_records: name = record.get('name', domain), with a final dot
ImportName(domain, record) ==
    LET name == Get(record, "name", domain)
    IN  IF EndsWithDot(name) THEN name ELSE name \o <<Dot>>

\* process_record, the body of its try block: one record reconciled against
\* the provider, where lres and wres are the provider's answers to the lookup
\* and to the write.  Yields the terminal state, the record the lookup
\* matched, the calls issued in order, the provider's records afterwards,
\* and in raised the exception that left the block ("" when none did).
ProcessRecordTry(st, nid, idx, domain, record_type, name, record, frc, lres, wres) ==
    LET errored(why, exc, issued) ==
            [state |-> "ERRORED", why |-> why, raised |-> exc,
             matched |-> <<>>, calls |-> issued, store |-> st, nextId |-> nid]
    IN
    IF "content" \notin DOMAIN record \/ "ttl" \notin DOMAIN record
    THEN errored("KeyError", "KeyError", <<>>)
    ELSE
    LET content == record.content
        ttl == record.ttl
        prio == Get(record, "prio", PyNone)
    IN
    IF PrioMissing(record_type, prio)
    THEN errored("prio missing", "", <<>>)
    ELSE
    LET root == RootDomain(domain)
        subdomain == LookupSubdomain(name)
        lookup == [op |-> "retrieveByNameType", rec |-> idx, root |-> root,
                   rtype |-> record_type, subdomain |-> subdomain,
                   response |-> lres,
                   returned |-> IF lres = "SUCCESS"
                                THEN ProviderRetrieve(st, root, record_type,
                                                      subdomain)
                                ELSE <<>>]
        existing_record == GetExistingRecord(st, domain, record_type, name,
                                             content, prio, lres)
        record_data == RecordData(name, record_type, content, ttl, prio)
    IN
    IF lres = "EXC"
    THEN errored("exception", "Exception", <<lookup>>)
    ELSE IF existing_record # <<>>
    THEN IF frc
         THEN LET payload == UpdatePayload(domain, record_data)
                  edit == [op |-> "edit", rec |-> idx, root |-> root,
                           id |-> existing_record[1].id, payload |-> payload,
                           response |-> wres]
              IN  IF wres = "SUCCESS"
                  THEN [state |-> "UPDATED", why |-> "", raised |-> "",
                        matched |-> existing_record,
                        calls |-> <<lookup, edit>>,
                        store |-> ProviderEdit(st, root, existing_record[1].id,
                                               payload),
                        nextId |-> nid]
                  ELSE [errored(IF wres = "EXC" THEN "exception"
                                ELSE "status ERROR",
                                IF wres = "EXC" THEN "Exception" ELSE "",
                                <<lookup, edit>>)
                            EXCEPT !.matched = existing_record]
         ELSE [state |-> "SKIPPED", why |-> "", raised |-> "",
               matched |-> existing_record, calls |-> <<lookup>>,
               store |-> st, nextId |-> nid]
    ELSE IF record_type \in PrioTypes /\ "prio" \notin DOMAIN record_data
    THEN errored("KeyError", "KeyError", <<lookup>>)   \* record['prio']
    ELSE LET payload == CreatePayload(domain, record_data)
             create == [op |-> "create", rec |-> idx, root |-> root,
                        payload |-> payload, response |-> wres]
         IN  IF wres = "SUCCESS"
             THEN [state |-> "CREATED", why |-> "", raised |-> "",
                   matched |-> <<>>, calls |-> <<lookup, create>>,
                   store |-> ProviderCreate(st, nid, root, payload),
                   nextId |-> nid + 1]
             ELSE errored(IF wres = "EXC" THEN "exception" ELSE "status ERROR",
                          IF wres = "EXC" THEN "Exception" ELSE "",
                          <<lookup, create>>)

\* process_record with the except KeyError clause alone
CaughtKeyErrorOnly(res) ==
    IF res.raised = "KeyError" THEN [res EXCEPT !.raised = ""] ELSE res

\* process_record: except KeyError / except Exception report the error and
\* return normally
Caught(res) == [res EXCEPT !.raised = ""]

\* process_record repeating a write the provider did not accept
ProcessRecordRetrying(st, nid, idx, domain, record_type, name, record, frc, lres, wres) ==
    LET res == Caught(ProcessRecordTry(st, nid, idx, domain, record_type, name,
                                       record, frc, lres, wres))
    IN  IF Len(res.calls) = 2 /\ wres # "SUCCESS"
        THEN [res EXCEPT !.calls = Append(res.calls, res.calls[2])]
        ELSE res

\* process_record
ProcessRecord(st, nid, idx, domain, record_type, name, record, frc, lres, wres) ==
    Caught(ProcessRecordTry(st, nid, idx, domain, record_type, name, record,
                            frc, lres, wres))

\* the structural schema of the import document: every domain's value is a
\* mapping from record type to a list of objects holding content and ttl
SchemaAccepts(data) ==
    \A i \in 1..Len(data) :
        /\ data[i].shape = "mapping"
        /\ {"content", "ttl"} \subseteq DOMAIN data[i].record

\* validate_json_schema: True, or False after one of the caught exceptions
ValidateJsonSchema(data, schemaFile) ==
    schemaFile = "loaded" /\ SchemaAccepts(data)

\* read_input dropping the result of validate_json_schema
ReadInputUnvalidated(data, input, schemaFile) == input = "parsed"

\* read_input: TRUE when it returns data, FALSE when it raises
ReadInputReturns(data, input, schemaFile) ==
    input = "parsed" /\ ValidateJsonSchema(data, schemaFile)

----------------------------------------------------------------------------
(* dns_export.py                                                           *)
(* A resolver answer is [ttl, rdatas]; an rdata holds the attributes the   *)
(* code reads for its type, and text, its str().  The dict `records` is    *)
(* the sequence of its <<key, value>> pairs in insertion order.            *)

\* key in d
HasKey(d, key) == \E i \in 1..Len(d) : d[i][1] = key

\* d[key]
Lookup(d, key) == d[CHOOSE i \in 1..Len(d) : d[i][1] = key][2]

\* d[key] = value
Assign(d, key, value) ==
    IF HasKey(d, key)
    THEN [i \in 1..Len(d) |-> IF d[i][1] = key THEN <<key, value>> ELSE d[i]]
    ELSE Append(d, <<key, value>>)

\* d.pop(key, None)
Pop(d, key) == SelectSeq(d, LAMBDA e : e[1] # key)

\* get_records: the list stored in records[record_type] for one answer
DecodeAnswers(record_type, answers, raw_output) ==
    [i \in 1..Len(answers.rdatas) |->
        LET rdata == answers.rdatas[i]
        IN  IF raw_output THEN rdata.text
            ELSE IF record_type = "MX"
            THEN <<rdata.exchange, rdata.preference, answers.ttl>>
            ELSE IF record_type = "SRV"
            THEN <<rdata.target, rdata.priority, rdata.weight, rdata.port,
                   answers.ttl>>
            ELSE IF record_type = "NAPTR"
            THEN <<rdata.replacement, rdata.order, rdata.preference,
                   answers.ttl>>
            ELSE <<rdata.text, answers.ttl>>]

\* get_records losing the records collected so far when a query fails with
\* an exception other than NXDOMAIN and NoAnswer
QueryStepErrorDrops(recs, record_type, outcome, raw_output) ==
    IF outcome.kind = "answers"
    THEN Assign(recs, record_type,
                DecodeAnswers(record_type, outcome.answers, raw_output))
    ELSE IF outcome.kind = "Error" THEN <<>>
    ELSE recs

\* get_records: one pass of the loop body; a resolver exception (NXDOMAIN,
\* NoAnswer or any other) leaves records as it was
QueryStep(recs, record_type, outcome, raw_output) ==
    IF outcome.kind = "answers"
    THEN Assign(recs, record_type,
                DecodeAnswers(record_type, outcome.answers, raw_output))
    ELSE recs

\* get_records removing the A records alone
PostProcessOnlyA(recs, keep_a_aaaa) ==
    IF HasKey(recs, "CNAME") /\ ~keep_a_aaaa
    THEN Pop(recs, "A")
    ELSE recs

\* get_records: remove A and AAAA if CNAME exists, unless keep_a_aaaa
PostProcess(recs, keep_a_aaaa) ==
    IF HasKey(recs, "CNAME") /\ ~keep_a_aaaa
    THEN Pop(Pop(recs, "A"), "AAAA")
    ELSE recs

RECURSIVE StripLeft(_)
StripLeft(s) ==
    IF Len(s) > 0 /\ Head(s) = Quote THEN StripLeft(Tail(s)) ELSE s

RECURSIVE StripRight(_)
StripRight(s) ==
    IF Len(s) > 0 /\ s[Len(s)] = Quote
    THEN StripRight(SubSeq(s, 1, Len(s) - 1))
    ELSE s

\* content.strip('"')
StripQuotes(s) == StripRight(StripLeft(s))

\* format_records: record_data of one decoded record
FormatRecord(record_type, record) ==
    IF record_type = "MX"
    THEN [content |-> record[1], ttl |-> PyStr(ToString(record[3])),
          prio |-> PyStr(ToString(record[2]))]
    ELSE IF record_type = "SRV"
    THEN [content |-> <<ToString(record[3]), " ", ToString(record[4]), " ">>
                          \o record[1],
          ttl |-> PyStr(ToString(record[5])),
          prio |-> PyStr(ToString(record[2]))]
    ELSE IF record_type = "NAPTR"
    THEN [content |-> record[1], ttl |-> PyStr(ToString(record[4])),
          order |-> PyStr(ToString(record[2])),
          preference |-> PyStr(ToString(record[3]))]
    ELSE IF record_type = "TXT"
    THEN [content |-> StripQuotes(record[1]),
          ttl |-> PyStr(ToString(record[2]))]
    ELSE [content |-> record[1], ttl |-> PyStr(ToString(record[2]))]

\* format_records: formatted[domain], one <<type, list>> pair per key of
\* records
FormatRecords(recs) ==
    [i \in 1..Len(recs) |->
        <<recs[i][1],
          [j \in 1..Len(recs[i][2]) |-> FormatRecord(recs[i][1], recs[i][2][j])]>>]

RECURSIVE DocumentItems(_, _)
\* the (domain, type, record) items of the document [{domain: formatted}],
\* in the order import_dns_records visits them
DocumentItems(domain, fmt) ==
    IF Len(fmt) = 0 THEN <<>>
    ELSE [j \in 1..Len(fmt[1][2]) |->
             [domain |-> domain, shape |-> "mapping", type |-> fmt[1][1],
              record |-> fmt[1][2][j]]]
         \o DocumentItems(domain, Tail(fmt))

----------------------------------------------------------------------------
(* Inputs of the import tool.                                              *)

Apex == <<"example", Dot, "com">>
Www == <<"www", Dot, "example", Dot, "com">>
ApexFqdn == <<"example", Dot, "com", Dot>>

WwwFqdn == <<"www", Dot, "example", Dot, "com", Dot>>

Content1 == <<"192.0.2.1">>

Plain == [content |-> Content1, ttl |-> PyStr("300")]

\* the items a document is made of: an A record at the apex, an A record of
\* a subdomain that carries a prio, MX records at the apex with prio absent,
\* 0 as a JSON number and "10" as a JSON string, and a domain whose value is
\* a list instead of a mapping
DocItems ==
    {[domain |-> Apex, shape |-> "mapping", type |-> "A", record |-> Plain],
     [domain |-> Www, shape |-> "mapping", type |-> "A",
      record |-> Plain @@ [prio |-> PyStr("10")]]}
    \cup {[domain |-> Apex, shape |-> "mapping", type |-> "MX", record |-> r] :
              r \in {Plain, Plain @@ [prio |-> PyInt(0)],
                     Plain @@ [prio |-> PyStr("10")]}}
    \cup {[domain |-> Apex, shape |-> "list"]}

SeqsUpTo(S, n) == UNION {[1..k -> S] : k \in 0..n}

Docs == SeqsUpTo(DocItems, MaxRecs) \ {<<>>}

\* records the provider may hold before the first run, under the names the
\* lookups ask for, with a ttl that differs from the document's
StoreRecords ==
    {[zone |-> Apex, name |-> WwwFqdn, type |-> "A", content |-> Content1,
      ttl |-> PyStr("600"), prio |-> PyNone]}
    \cup {[zone |-> Apex, name |-> ApexFqdn, type |-> "MX", content |-> Content1,
           ttl |-> PyStr("600"), prio |-> PyStr(p)] : p \in {"0", "10"}}

\* the provider's records given ids 1..n in the order it returns them
WithIds(rs) == [i \in 1..Len(rs) |-> rs[i] @@ [id |-> i]]

Stores ==
    {WithIds(rs) : rs \in {q \in SeqsUpTo(StoreRecords, MaxStore) :
                               \A i, j \in 1..Len(q) : i # j => q[i] # q[j]}}

NoExport == [domain |-> Apex, record_types |-> <<>>, raw_output |-> FALSE,
             keep_a_aaaa |-> FALSE]

Unread == [input |-> "unread", schemaFile |-> "unread"]

\* the import tool started on a document, the export tool not in use
Init ==
    /\ pc = "main"
    /\ doc \in Docs
    /\ force \in BOOLEAN
    /\ pos = 0
    /\ store \in Stores
    /\ store0 = store
    /\ nextId = Len(store) + 1
    /\ calls = <<>>
    /\ outcomes = <<>>
    /\ exitCode = -1
    /\ run = 1
    /\ firstRun = -1
    /\ readEnv = Unread
    /\ faults = 0
    /\ xpc = "idle"
    /\ xin = NoExport
    /\ xidx = 0
    /\ xanswers = <<>>
    /\ records = <<>>
    /\ formatted = <<>>

----------------------------------------------------------------------------
(* Steps of the import tool.                                               *)

\* __main__: new_records = read_input(args.file), where input says how
\* reading and parsing the input went and schemaFile how loading
\* schema.json went; an exception ends the process with status 1
ReadInputWith(input, schemaFile) ==
    /\ pc = "main"
    /\ readEnv' = [input |-> input, schemaFile |-> schemaFile]
    /\ IF ReadInputReturns(doc, input, schemaFile)
       THEN /\ pc' = "import"
            /\ pos' = 1
            /\ UNCHANGED <<exitCode, firstRun>>
       ELSE /\ pc' = "exited"
            /\ exitCode' = 1
            /\ firstRun' = IF run = 1 THEN 1 ELSE firstRun
            /\ UNCHANGED pos
    /\ UNCHANGED <<doc, force, store, store0, nextId, calls, outcomes, run,
                   faults>>
    /\ UNCHANGED exportVars

\* the input may be missing or no JSON, and so may schema.json
ReadInput ==
    \E input \in {"parsed", "JSONDecodeError", "FileNotFoundError"},
       schemaFile \in {"loaded", "FileNotFoundError", "JSONDecodeError"} :
       ReadInputWith(input, schemaFile)

\* the input is JSON and schema.json loads
ReadInputParsed == ReadInputWith("parsed", "loaded")

\* import_dns_records: one pass of the innermost loop body, the provider
\* answering lres to the lookup and wres to the write.  records.items() on
\* a list raises AttributeError; that, like an exception process_record lets
\* through, reaches __main__, which ends the process with status 1.
ProcessItemWith(lres, wres) ==
    /\ pc = "import"
    /\ pos <= Len(doc)
    /\ IF doc[pos].shape # "mapping"
       THEN /\ pc' = "exited"
            /\ exitCode' = 1
            /\ firstRun' = IF run = 1 THEN 1 ELSE firstRun
            /\ UNCHANGED <<pos, store, nextId, calls, outcomes, faults>>
       ELSE LET item == doc[pos]
                name == ImportName(item.domain, item.record)
                res == ProcessRecord(store, nextId, pos, item.domain, item.type,
                                     name, item.record, force, lres, wres)
                failed == (IF Len(res.calls) >= 1 /\ lres # "SUCCESS"
                           THEN 1 ELSE 0)
                          + (IF Len(res.calls) = 2 /\ wres # "SUCCESS"
                             THEN 1 ELSE 0)
            IN  /\ faults + failed <= MaxFaults
                /\ faults' = faults + failed
                /\ store' = res.store
                /\ nextId' = res.nextId
                /\ calls' = calls \o res.calls
                /\ outcomes' = Append(outcomes,
                                      [rec |-> pos, state |-> res.state,
                                       why |-> res.why,
                                       matched |-> res.matched])
                /\ IF res.raised = ""
                   THEN /\ pos' = pos + 1
                        /\ UNCHANGED <<pc, exitCode, firstRun>>
                   ELSE /\ pc' = "exited"
                        /\ exitCode' = 1
                        /\ firstRun' = IF run = 1 THEN 1 ELSE firstRun
                        /\ UNCHANGED pos
    /\ UNCHANGED <<doc, force, store0, run, readEnv>>
    /\ UNCHANGED exportVars

\* the provider may fail any call, up to MaxFaults calls a run
ProcessItem == \E lres \in Responses, wres \in Responses : ProcessItemWith(lres, wres)

\* the provider accepts every call
ProcessItemAccepted == ProcessItemWith("SUCCESS", "SUCCESS")

\* import_dns_records returns and the process ends with status 0
ImportDone ==
    /\ pc = "import"
    /\ pos > Len(doc)
    /\ pc' = "exited"
    /\ exitCode' = 0
    /\ firstRun' = IF run = 1 THEN 0 ELSE firstRun
    /\ UNCHANGED <<doc, force, pos, store, store0, nextId, calls, outcomes, run,
                   readEnv, faults>>
    /\ UNCHANGED exportVars

\* the operator runs the tool again on the same document
Rerun ==
    /\ pc = "exited"
    /\ run < MaxRuns
    /\ run' = run + 1
    /\ pc' = "main"
    /\ force' \in BOOLEAN
    /\ pos' = 0
    /\ calls' = <<>>
    /\ outcomes' = <<>>
    /\ exitCode' = -1
    /\ faults' = 0
    /\ readEnv' = Unread
    /\ store0' = store
    /\ UNCHANGED <<doc, store, nextId, firstRun>>
    /\ UNCHANGED exportVars

Next == ReadInput \/ ProcessItem \/ ImportDone

Spec == Init /\ [][Next]_vars

NextTwice == ReadInputParsed \/ ProcessItemAccepted \/ ImportDone \/ Rerun

\* repeated runs against a provider that accepts every call
SpecTwice == Init /\ [][NextTwice]_vars

----------------------------------------------------------------------------
(* Documents that exercise the naming of records, and records that share   *)
(* a name and a content.                                                   *)

Deep == <<"a", Dot, "b", Dot, "example", Dot, "com">>
Mail == <<"mail", Dot, "example", Dot, "com">>

\* the items of these documents: A records at the apex with two ttls, of a
\* subdomain with and without a prio, of a domain key of four labels, and
\* at the apex carrying a name of its own
NameItems ==
    {[domain |-> d, shape |-> "mapping", type |-> "A", record |-> Plain] :
         d \in {Apex, Www, Deep}}
    \cup {[domain |-> Www, shape |-> "mapping", type |-> "A",
           record |-> Plain @@ [prio |-> PyStr("10")]]}
    \cup {[domain |-> Apex, shape |-> "mapping", type |-> "A", record |-> r] :
              r \in {[content |-> Content1, ttl |-> PyStr("600")],
                     Plain @@ [name |-> Mail]}}

NameDocs == SeqsUpTo(NameItems, MaxRecs) \ {<<>>}

\* records the provider may hold before the first run: an A record under
\* the name the lookup of an apex record asks for, one under the name the
\* lookup of a subdomain record asks for, and one under "@"
NameStoreRecords ==
    {[zone |-> Apex, name |-> n, type |-> "A", content |-> Content1,
      ttl |-> PyStr("900"), prio |-> PyNone] : n \in {ApexFqdn, WwwFqdn, At}}

NameStores ==
    {WithIds(rs) : rs \in {q \in SeqsUpTo(NameStoreRecords, MaxStore) :
                               \A i, j \in 1..Len(q) : i # j => q[i] # q[j]}}

\* the import tool started on one of these documents
InitNames ==
    /\ pc = "main"
    /\ doc \in NameDocs
    /\ force \in BOOLEAN
    /\ pos = 0
    /\ store \in NameStores
    /\ store0 = store
    /\ nextId = Len(store) + 1
    /\ calls = <<>>
    /\ outcomes = <<>>
    /\ exitCode = -1
    /\ run = 1
    /\ firstRun = -1
    /\ readEnv = Unread
    /\ faults = 0
    /\ xpc = "idle"
    /\ xin = NoExport
    /\ xidx = 0
    /\ xanswers = <<>>
    /\ records = <<>>
    /\ formatted = <<>>

SpecNames == InitNames /\ [][Next]_vars

RECURSIVE ImportAll(_, _, _, _)
\* import_dns_records on the items of a document, the provider accepting
\* every call: the provider's records after the last item
ImportAll(st, nid, items, frc) ==
    IF Len(items) = 0 THEN st
    ELSE LET item == Head(items)
             res == ProcessRecord(st, nid, 0, item.domain, item.type,
                                  ImportName(item.domain, item.record),
                                  item.record, frc, "SUCCESS", "SUCCESS")
         IN  ImportAll(res.store, res.nextId, Tail(items), frc)

----------------------------------------------------------------------------
(* Inputs and steps of the export tool.                                    *)

\* main: the default record types
DefaultTypes == <<"A", "AAAA", "CNAME", "MX", "TXT", "SPF">>

\* main: the --all catalog, in its order, restricted to the types
\* get_records and format_records tell apart plus NS for the generic ones
AllTypes == <<"A", "AAAA", "CNAME", "MX", "NAPTR", "NS", "SPF", "SRV", "TXT">>

Range(f) == {f[i] : i \in DOMAIN f}

\* main: record_types after --all and --exclude
RecordTypeLists ==
    {l \in {SelectSeq(base, LAMBDA t : t \notin ex) :
                base \in {DefaultTypes, AllTypes},
                ex \in SUBSET Range(AllTypes)} : Len(l) <= MaxTypes}

ExportInputs ==
    [domain : {Apex, Www}, record_types : RecordTypeLists,
     raw_output : BOOLEAN, keep_a_aaaa : BOOLEAN]

NoAnswers == [ttl |-> 0, rdatas |-> <<>>]

\* what resolver.resolve(domain, record_type) may return when it answers
Answers(record_type) ==
    CASE record_type = "MX" ->
           {[ttl |-> 300,
             rdatas |-> <<[exchange |-> <<"mx1.example.net.">>, preference |-> 0,
                           text |-> <<"0 mx1.example.net.">>],
                          [exchange |-> <<"mx2.example.net.">>, preference |-> 10,
                           text |-> <<"10 mx2.example.net.">>]>>]}
      [] record_type = "SRV" ->
           {[ttl |-> 300,
             rdatas |-> <<[target |-> <<"sip.example.net.">>, priority |-> 10,
                           weight |-> 5, port |-> 5060,
                           text |-> <<"10 5 5060 sip.example.net.">>]>>]}
      [] record_type = "NAPTR" ->
           {[ttl |-> 300,
             rdatas |-> <<[replacement |-> <<"sip.example.net.">>,
                           order |-> 100, preference |-> 10,
                           text |-> <<"100 10 \"u\" \"E2U+sip\" \"\" sip.example.net.">>]>>]}
      [] record_type \in {"TXT", "SPF"} ->
           {[ttl |-> 300,
             rdatas |-> <<[text |-> <<Quote, "v=spf1 -all", Quote>>]>>]}
      [] OTHER ->
           {[ttl |-> 300, rdatas |-> <<[text |-> <<record_type, "-data">>]>>]}

\* resolver.resolve(domain, record_type): an answer or an exception
ResolverOutcomes(record_type) ==
    {[kind |-> k, answers |-> NoAnswers] : k \in {"NXDOMAIN", "NoAnswer", "Error"}}
    \cup {[kind |-> "answers", answers |-> a] : a \in Answers(record_type)}

\* the export tool started on one domain, the import tool not yet in use
InitExport ==
    /\ pc = "idle"
    /\ doc = <<>>
    /\ force = FALSE
    /\ pos = 0
    /\ store = <<>>
    /\ store0 = <<>>
    /\ nextId = 1
    /\ calls = <<>>
    /\ outcomes = <<>>
    /\ exitCode = -1
    /\ run = 1
    /\ firstRun = -1
    /\ readEnv = Unread
    /\ faults = 0
    /\ xpc = "query"
    /\ xin \in ExportInputs
    /\ xidx = 1
    /\ xanswers = <<>>
    /\ records = <<>>
    /\ formatted = <<>>

\* get_records: one pass of the loop over record_types
Query ==
    /\ xpc = "query"
    /\ xidx <= Len(xin.record_types)
    /\ \E outcome \in ResolverOutcomes(xin.record_types[xidx]) :
          /\ records' = QueryStep(records, xin.record_types[xidx], outcome,
                                  xin.raw_output)
          /\ xanswers' = Append(xanswers,
                                [type |-> xin.record_types[xidx],
                                 answered |-> outcome.kind = "answers",
                                 answers |-> outcome.answers])
    /\ xidx' = xidx + 1
    /\ UNCHANGED <<xpc, xin, formatted>>
    /\ UNCHANGED importVars

\* get_records: the post-processing and the return to main, which keeps the
\* records as they are under --raw
GetRecordsReturn ==
    /\ xpc = "query"
    /\ xidx > Len(xin.record_types)
    /\ records' = PostProcess(records, xin.keep_a_aaaa)
    /\ IF xin.raw_output
       THEN formatted' = records' /\ xpc' = "done"
       ELSE formatted' = formatted /\ xpc' = "format"
    /\ UNCHANGED <<xin, xidx, xanswers>>
    /\ UNCHANGED importVars

\* main: formatted_records = format_records(domain, records, verbosity)
Format ==
    /\ xpc = "format"
    /\ formatted' = FormatRecords(records)
    /\ xpc' = "done"
    /\ UNCHANGED <<xin, xidx, xanswers, records>>
    /\ UNCHANGED importVars

\* the provider holding, under the names the lookups ask for, a record with
\* the content and prio of every item
Holding(items) ==
    [i \in 1..Len(items) |->
        [id |-> i, zone |-> RootDomain(items[i].domain),
         name |-> LookupSubdomain(ImportName(items[i].domain, items[i].record)),
         type |-> items[i].type, content |-> items[i].record.content,
         ttl |-> PyStr("600"), prio |-> Get(items[i].record, "prio", PyNone)]]

\* the exported document is given to the import tool, against a provider
\* that holds none or all of its records
Handoff ==
    /\ xpc = "done"
    /\ ~xin.raw_output
    /\ pc = "idle"
    /\ doc' = DocumentItems(xin.domain, formatted)
    /\ force' \in BOOLEAN
    /\ store' \in {<<>>, Holding(doc')}
    /\ store0' = store'
    /\ nextId' = Len(store') + 1
    /\ pc' = "main"
    /\ UNCHANGED <<pos, calls, outcomes, exitCode, run, firstRun, readEnv, faults>>
    /\ UNCHANGED exportVars

NextExport ==
    \/ Query \/ GetRecordsReturn \/ Format \/ Handoff
    \/ ReadInputParsed \/ ProcessItemAccepted \/ ImportDone

\* export of one domain, followed by the import of the exported document
SpecExport == InitExport /\ [][NextExport]_vars

----------------------------------------------------------------------------
(* Properties.                                                             *)

\* the calls issued for the k-th record handed to process_record
CallsOf(k) == SelectSeq(calls, LAMBDA c : c.rec = outcomes[k].rec)

\* the document item of the k-th record handed to process_record
ItemOf(k) == doc[outcomes[k].rec]

IsWrite(c) == c.op \in {"create", "edit"}

\* every record of the document holds the fields process_record requires
RequiredFieldsPresent ==
    \A i \in 1..Len(doc) :
        /\ doc[i].shape = "mapping"
        /\ {"content", "ttl"} \subseteq DOMAIN doc[i].record
        /\ doc[i].type \in PrioTypes => "prio" \in DOMAIN doc[i].record

\* C1: when the second run of the same document, without force, follows a
\* first run that ended with status 0 against a provider that accepted and
\* stored every create under the name of its payload, the second run ends
\* with every record SKIPPED and has issued no create and no edit call.
C1_SecondRunSkipsAll ==
    (/\ run = 2
     /\ firstRun = 0
     /\ ~force
     /\ RequiredFieldsPresent
     /\ pc = "exited"
     /\ exitCode = 0)
    => /\ Len(outcomes) = Len(doc)
       /\ \A k \in 1..Len(outcomes) : outcomes[k].state = "SKIPPED"
       /\ \A i \in 1..Len(calls) : ~IsWrite(calls[i])

\* C2: with force set, a record whose lookup matched an existing provider
\* record has exactly one lookup followed by exactly one edit call; the edit
\* targets the id of the matched record, which is one of the records the
\* lookup returned, and its payload carries the content, the ttl and, when
\* the input has one, the prio of the input record; no create call is issued.
C2_ForceEditsMatched ==
    \A k \in 1..Len(outcomes) :
        (force /\ outcomes[k].matched # <<>>) =>
            LET cs == CallsOf(k)
                r == ItemOf(k).record
            IN  /\ Len(cs) = 2
                /\ cs[1].op = "retrieveByNameType"
                /\ \E i \in 1..Len(cs[1].returned) :
                       cs[1].returned[i] = outcomes[k].matched[1]
                /\ cs[2].op = "edit"
                /\ cs[2].id = outcomes[k].matched[1].id
                /\ cs[2].payload.content = r.content
                /\ cs[2].payload.ttl = r.ttl
                /\ "prio" \in DOMAIN r =>
                       /\ "prio" \in DOMAIN cs[2].payload
                       /\ cs[2].payload.prio = r.prio

\* C2 witness: a forced update of an MX record that carries a prio, whose
\* ttl differs from the matched record's, has succeeded.
C2_Witness ==
    \E k \in 1..Len(outcomes) :
        /\ force
        /\ outcomes[k].state = "UPDATED"
        /\ ItemOf(k).type = "MX"
        /\ "prio" \in DOMAIN ItemOf(k).record
        /\ outcomes[k].matched[1].ttl # ItemOf(k).record.ttl

\* C3: when the schema file cannot be loaded or the document fails the
\* structural schema, read_input has raised: the process has ended with
\* status 1 and no provider call has been issued.
C3_InvalidRejectedWhole ==
    (/\ readEnv # Unread
     /\ (readEnv.schemaFile # "loaded" \/ ~SchemaAccepts(doc)))
    => /\ pc = "exited"
       /\ exitCode = 1
       /\ calls = <<>>
       /\ outcomes = <<>>

\* C3 witness: a parsed document whose second domain has a list as its
\* value, after a well-formed record, has been rejected.
C3_Witness ==
    /\ readEnv = [input |-> "parsed", schemaFile |-> "loaded"]
    /\ Len(doc) = 2
    /\ doc[1].shape = "mapping"
    /\ doc[2].shape = "list"
    /\ pc = "exited"
    /\ exitCode = 1

C5_CnameDropsAddresses ==
    xpc \in {"format", "done"} =>
        /\ (HasKey(records, "CNAME") /\ ~xin.keep_a_aaaa) =>
               /\ ~HasKey(records, "A") /\ ~HasKey(records, "AAAA")
               /\ ~HasKey(formatted, "A") /\ ~HasKey(formatted, "AAAA")
        /\ xin.keep_a_aaaa =>
               \A i \in 1..Len(xanswers) :
                   (xanswers[i].type \in {"A", "AAAA"} /\ xanswers[i].answered)
                   => /\ HasKey(records, xanswers[i].type)
                      /\ Lookup(records, xanswers[i].type) =
                             DecodeAnswers(xanswers[i].type, xanswers[i].answers,
                                           xin.raw_output)

\* C5 witness: the export is done without keep_a_aaaa, the resolver having
\* answered for AAAA and for CNAME.
C5_Witness ==
    /\ xpc = "done"
    /\ ~xin.keep_a_aaaa
    /\ HasKey(records, "CNAME")
    /\ \E i \in 1..Len(xanswers) :
           xanswers[i].type = "AAAA" /\ xanswers[i].answered

\* C6: when the lookup of a record came back without a match, with force
\* set or not, exactly one create call and no edit call is issued for the
\* record, and the create payload carries the record's type, content and
\* ttl unchanged, its prio for a priority-bearing type, and the name "@" for
\* a record at the apex of its root domain.
C6_NoMatchCreates ==
    \A k \in 1..Len(outcomes) :
        LET cs == CallsOf(k)
            item == ItemOf(k)
        IN  (/\ Len(cs) >= 1
             /\ cs[1].response # "EXC"
             /\ outcomes[k].matched = <<>>)
            => /\ Len(cs) = 2
               /\ cs[2].op = "create"
               /\ cs[2].payload.type = item.type
               /\ cs[2].payload.content = item.record.content
               /\ cs[2].payload.ttl = item.record.ttl
               /\ item.type \in PrioTypes =>
                      cs[2].payload.prio = item.record.prio
               /\ item.domain = Apex => cs[2].payload.name = At

\* C6 witness: the A record {content 192.0.2.1, ttl 300} at the apex of
\* example.com was created with the payload {type A, content 192.0.2.1,
\* ttl 300, name @}.
C6_Witness ==
    \E k \in 1..Len(outcomes) :
        /\ outcomes[k].state = "CREATED"
        /\ ItemOf(k) = [domain |-> Apex, shape |-> "mapping", type |-> "A",
                        record |-> Plain]
        /\ CallsOf(k)[2].payload =
               [type |-> "A", content |-> Content1, ttl |-> PyStr("300"),
                name |-> At]

\* the record types format_records gives a template
TypedTypes == {"A", "AAAA", "CNAME", "NS", "TXT", "SPF", "MX", "SRV", "NAPTR"}

\* C7: every record object format_records produced for a typed-mode record
\* type is accepted by process_record (it does not end in a missing-field
\* error), and the payload of the write issued for it carries the content,
\* ttl and prio of the exported record.
C7_ExportImportRoundTrip ==
    \A k \in 1..Len(outcomes) :
        LET cs == CallsOf(k)
            item == ItemOf(k)
        IN  item.type \in TypedTypes =>
                /\ outcomes[k].why \notin {"prio missing", "KeyError"}
                /\ \A i \in 1..Len(cs) :
                       IsWrite(cs[i]) =>
                           /\ cs[i].payload.content = item.record.content
                           /\ cs[i].payload.ttl = item.record.ttl
                           /\ "prio" \in DOMAIN item.record =>
                                  cs[i].payload.prio = item.record.prio

RECURSIVE ClaimedFirstMatch(_, _, _, _)
\* the match rule as claimed: the first candidate with the input's content
\* and, for a priority-bearing type, the input's prio as a string
ClaimedFirstMatch(recs, record_type, content, prio) ==
    IF Len(recs) = 0 THEN <<>>
    ELSE IF /\ Head(recs).content = content
            /\ record_type \in PrioTypes => Str(Head(recs).prio) = Str(prio)
    THEN <<Head(recs)>>
    ELSE ClaimedFirstMatch(Tail(recs), record_type, content, prio)

\* C9: the record get_existing_record returns is the first record the
\* provider returned whose content equals the input content and, for MX,
\* SRV and NAPTR, whose prio equals the input prio as strings; it returns
\* none when no returned record satisfies this.
C9_LookupMatchRule ==
    \A k \in 1..Len(outcomes) :
        LET cs == CallsOf(k)
            item == ItemOf(k)
        IN  (Len(cs) >= 1 /\ cs[1].response = "SUCCESS") =>
                outcomes[k].matched =
                    ClaimedFirstMatch(cs[1].returned, item.type,
                                      item.record.content,
                                      Get(item.record, "prio", PyNone))

\* C10: every create and every edit payload holds a prio only when its
\* record type is MX, SRV or NAPTR.
C10_PrioOnlyForPrioTypes ==
    \A i \in 1..Len(calls) :
        (IsWrite(calls[i]) /\ "prio" \in DOMAIN calls[i].payload)
        => calls[i].payload.type \in PrioTypes

\* the payload name as claimed: "@" when the record's effective name is the
\* registered domain, else the labels of the effective name in front of the
\* registered domain
ClaimedPayloadName(item) ==
    LET effective == Get(item.record, "name", item.domain)
        parts == SplitDot(effective)
    IN  IF effective = RootDomain(item.domain) THEN At
        ELSE JoinDot(SubSeq(parts, 1, Len(parts) - 2))

\* C11: the name of every create and edit payload is "@" exactly when the
\* record's effective name (its own name field when given, else the domain
\* key) is the registered domain, and otherwise the full subdomain label of
\* the effective name relative to the registered domain.
C11_PayloadNameIsEffectiveLabel ==
    \A i \in 1..Len(calls) :
        IsWrite(calls[i]) =>
            calls[i].payload.name = ClaimedPayloadName(doc[calls[i].rec])

\* the provider's records without their ids
RecordSet(st) ==
    {[zone |-> st[i].zone, name |-> st[i].name, type |-> st[i].type,
      content |-> st[i].content, ttl |-> st[i].ttl, prio |-> st[i].prio] :
         i \in 1..Len(st)}

\* C12: when a run on a valid document has ended with status 0 against a
\* provider that accepted every call, importing the same records in any
\* other order, with the same force flag and from the same initial provider
\* records, leaves the provider with the same set of records.
C12_OrderIrrelevant ==
    (/\ pc = "exited"
     /\ exitCode = 0
     /\ \A i \in 1..Len(calls) : calls[i].response = "SUCCESS")
    => \A p \in Permutations(1..Len(doc)) :
           RecordSet(ImportAll(store0, Len(store0) + 1,
                               [i \in 1..Len(doc) |-> doc[p[i]]], force))
               = RecordSet(store)

\* C13: provider calls are sequential and follow the order of the document.
\* The calls of a record are not followed by a call of an earlier record; a
\* record that fails the required-field check has no call; every other
\* record has exactly one lookup, which is its first call, followed by at
\* most one write (a create or an edit), also when a call failed.
C13_CallsSequentialInOrder ==
    /\ \A i, j \in 1..Len(calls) : i < j => calls[i].rec <= calls[j].rec
    /\ \A i \in 1..Len(calls) :
           \E k \in 1..Len(outcomes) : outcomes[k].rec = calls[i].rec
    /\ \A k \in 1..Len(outcomes) :
           LET cs == CallsOf(k)
               item == ItemOf(k)
           IN  IF PrioMissing(item.type, Get(item.record, "prio", PyNone))
               THEN cs = <<>>
               ELSE /\ Len(cs) \in {1, 2}
                    /\ cs[1].op = "retrieveByNameType"
                    /\ Len(cs) = 2 => IsWrite(cs[2])

\* C13 witness: the provider answered a write with status ERROR, and the
\* next call was the lookup of the next record of the document.
C13_Witness ==
    \E i \in 1..Len(calls) :
        /\ IsWrite(calls[i])
        /\ calls[i].response = "ERROR"
        /\ i < Len(calls)
        /\ calls[i + 1].op = "retrieveByNameType"
        /\ calls[i + 1].rec = calls[i].rec + 1

RECURSIVE AnsweredRecords(_, _)
\* the records dict of a list of queries that were all answered
AnsweredRecords(answered, raw_output) ==
    IF Len(answered) = 0 THEN <<>>
    ELSE LET n == Len(answered)
             last == answered[n]
         IN  Assign(AnsweredRecords(SubSeq(answered, 1, n - 1), raw_output),
                    last.type, DecodeAnswers(last.type, last.answers, raw_output))

C15_LookupAndWriteSameName ==
    \A k \in 1..Len(outcomes) :
        LET cs == CallsOf(k)
        IN  Len(cs) = 2 =>
                /\ cs[1].subdomain = ProviderKey(cs[2].payload.name)
                /\ ~EndsWithDot(cs[1].subdomain)

====
